---- MODULE Spec2Model ----
(***************************************************************************)
(* State-machine model of the WhatsApp pairing/session service.            *)
(*                                                                         *)
(* The repository holds four versions of the same server:                  *)
(*   "server" : src/server.js            (one shared 'session' directory)  *)
(*   "p000"   : src/unnamed/part_000     (default socket + per-request     *)
(*                                        directories)                     *)
(*   "single" : src/unnamed/part_001:1-90   (single pairing attempt)       *)
(*   "retry"  : src/unnamed/part_001:92-263 (startSocket(sessionName))     *)
(* The variable `variant' fixes which of them runs.                        *)
(*                                                                         *)
(* Names: a session name is a number, 0 for the literal 'session' and      *)
(* phone * IdSpace + randomId for `${phone}-${randomId}'.  A directory is  *)
(* named by the session it belongs to; directory 0 is sessionDir, the      *)
(* parent of every per-request directory and of every archive file.        *)
(* An archive path path.join(sessionDir, `${name}.zip`) is named by name.  *)
(***************************************************************************)
EXTENDS Integers, Sequences, FiniteSets, TLC

\* ---- bounds -------------------------------------------------------------
MaxConns == 3
MaxUpdates == 2
MaxReqs == 2
IdSpace == 3
MaxCodeLen == 8

Variants == {"server", "p000", "single", "retry"}
Phones == {1}
RandomIds == 1 .. (IdSpace - 1)
CodeChars == {"A", "B"}

\* ---- program constants ---------------------------------------------------
maxRetries == 3
sessionDir == 0
loggedOut == "loggedOut"
CloseReasons == {"loggedOut", "timedOut", "none"}

VARIABLES
  variant,    \* which version of the server runs
  listening,  \* app.listen callback has run
  conns,      \* every socket created so far, in creation order
  dirExists,  \* directories present under (and including) sessionDir
  credsDisk,  \* directory -> version of the credential files in it (0: none)
  zipf,       \* archive name -> state of the file at that path
  hs,         \* creds.update handler invocations, in emission order
  reqs,       \* /pair requests
  dl,         \* the last answer of the download route
  stopped,    \* sessions whose connection closed with loggedOut
  everComplete, \* archive names for which some pack has completed
  emitted,    \* number of creds.update events emitted so far
  crashed,    \* the process has terminated on an unhandled rejection
  raw,        \* a raw pairing code handed to the formatting line
  formatted,  \* what the formatting line made of it
  registered  \* the credentials stored in 'session' are registered (paired)

vars == <<variant, listening, conns, dirExists, credsDisk, zipf, hs, reqs, dl,
          stopped, everComplete, emitted, crashed, raw, formatted, registered>>

\* ---- names and paths -----------------------------------------------------
SessionName(phone, randomId) == phone * IdSpace + randomId
PairNames == {SessionName(p, r) : p \in Phones, r \in RandomIds}
Names == {0} \cup PairNames

getUserSessionDir(sessionName) == sessionName
getSessionZipPath(sessionName) == sessionName

\* ---- filesystem ----------------------------------------------------------
NoContent == [creds |-> <<>>, zips |-> <<>>]
NoFile == [st |-> "absent", writers |-> 0, raced |-> FALSE, content |-> NoContent]

DirsUnder(d) == IF d = sessionDir THEN dirExists ELSE {d} \cap dirExists
ZipsUnder(d) == IF d = sessionDir THEN {p \in Names : zipf[p].st # "absent"} ELSE {}

\* What a recursive read of directory d finds: the credential files of every
\* directory below it and the archive files below it with their current state.
DirContent(d) ==
  [creds |-> [x \in DirsUnder(d) |-> credsDisk[x]],
   zips  |-> [p \in ZipsUnder(d) |-> zipf[p].st]]

\* ---- sockets -------------------------------------------------------------
\* A socket with the values its two handlers close over: `dir' is the
\* directory given to useMultiFileAuthState, `zsrc' and `zip' the arguments of
\* zipSession in its creds.update handler, `watch' whether a connection.update
\* handler that reconnects is registered, `from' the socket whose close
\* started it (0: none), `mem' the credential version held in memory,
\* `opened' whether it has emitted connection: 'open', `reg' the registered
\* flag of the credentials it loaded, `pairing' where the pairing-code block
\* that follows the handlers of startDefaultSocket / startSocket stands
\* ("none": skipped or absent, "todo": waiting for the phone number,
\* "requested", then "logged" or "caught").  Every
\* version registers its creds.update handler right after creating the socket.
\* sock.authState.creds.registered of credentials loaded from `dir'.
Loaded(dir) == dir = sessionDir /\ registered

\* if (!sock.authState.creds.registered) { ... }, had the test been left out.
PairingBlock_Always(kind, reg) ==
  IF kind = "default" THEN "todo" ELSE "none"

\* if (!sock.authState.creds.registered) { ... }: only the default session's
\* start has the block.
PairingBlock(kind, reg) ==
  IF kind = "default" /\ ~reg THEN "todo" ELSE "none"

Sock(sid, dir, zsrc, zip, kind, watch, from) ==
  [sid |-> sid, dir |-> dir, zsrc |-> zsrc, zip |-> zip, kind |-> kind,
   watch |-> watch, cwatch |-> TRUE, from |-> from, st |-> "connecting",
   opened |-> FALSE, reason |-> "none",
   reg |-> Loaded(dir), pairing |-> PairingBlock(kind, Loaded(dir)),
   mem |-> IF dir \in dirExists THEN credsDisk[dir] ELSE 0]

startDefaultSocket(from) ==
  Sock(0, sessionDir, sessionDir, getSessionZipPath(0), "default", TRUE, from)

PairSockServer ==
  Sock(0, sessionDir, sessionDir, getSessionZipPath(0), "pair", TRUE, 0)

startSocket000(from) ==
  Sock(0, sessionDir, sessionDir, getSessionZipPath(0), "default", TRUE, from)

PairSock000(sessionName) ==
  Sock(sessionName, getUserSessionDir(sessionName), getUserSessionDir(sessionName),
       getSessionZipPath(sessionName), "pair", TRUE, 0)

PairSockSingle(sessionName) ==
  Sock(sessionName, getUserSessionDir(sessionName), getUserSessionDir(sessionName),
       getSessionZipPath(sessionName), "pair", FALSE, 0)

startSocketRetry(sessionName, from) ==
  Sock(sessionName, getUserSessionDir(sessionName), getUserSessionDir(sessionName),
       getSessionZipPath(sessionName), "pair", TRUE, from)

\* The socket a /pair request opens for (phone, randomId).
PairSock(phone, randomId) ==
  CASE variant = "server" -> PairSockServer
    [] variant = "p000"   -> PairSock000(SessionName(phone, randomId))
    [] variant = "single" -> PairSockSingle(SessionName(phone, randomId))
    [] variant = "retry"  -> startSocketRetry(SessionName(phone, randomId), 0)

shouldReconnect(reason) == reason # loggedOut

\* The sockets the connection.update handler of socket i starts when i closes
\* with `reason': none without a handler or on loggedOut, else one socket.
OnClose(i, reason) ==
  IF ~conns[i].watch \/ ~shouldReconnect(reason) THEN <<>>
  ELSE CASE variant = "server" -> <<startDefaultSocket(i)>>
         [] variant = "p000"   -> <<startSocket000(i)>>
         [] variant = "retry"  -> <<startSocketRetry(conns[i].sid, i)>>
         [] OTHER              -> <<>>

Live(i) == conns[i].st # "closed"

\* ---- initial state -------------------------------------------------------
\* After module load: sessionDir exists, nothing else has happened.
\* The server before app.listen.
NotStarted ==
  /\ variant \in Variants
  /\ listening = FALSE
  /\ conns = <<>>
  /\ dirExists = {sessionDir}
  /\ credsDisk = [d \in Names |-> 0]
  /\ zipf = [p \in Names |-> NoFile]
  /\ hs = <<>>
  /\ reqs = <<>>
  /\ dl = [path |-> 0, status |-> 0, st |-> "absent", content |-> NoContent,
           everComplete |-> FALSE, handled |-> FALSE, expect |-> NoContent]
  /\ stopped = {}
  /\ everComplete = {}
  /\ emitted = 0
  /\ crashed = FALSE

Init ==
  /\ NotStarted
  /\ raw = <<>>
  /\ formatted = <<>>
  /\ registered = FALSE

\* app.listen callback: server.js and part_000 start the default socket.
Listen ==
  /\ ~crashed
  /\ ~listening
  /\ listening' = TRUE
  /\ conns' = CASE variant = "server" -> Append(conns, startDefaultSocket(0))
                [] variant = "p000"   -> Append(conns, startSocket000(0))
                [] OTHER              -> conns
  /\ UNCHANGED <<variant, registered, crashed, raw, formatted, emitted, dirExists, credsDisk, zipf, hs, reqs, dl, stopped,
                 everComplete>>

\* connection.update {connection: 'open'} on socket i; in server.js the
\* one-shot listener of a waiting /pair request resolves its promise.
ConnOpen(i) ==
  /\ ~crashed
  /\ conns[i].st = "connecting"
  /\ conns' = [conns EXCEPT ![i].st = "open", ![i].opened = TRUE]
  /\ reqs' = [r \in DOMAIN reqs |->
                IF reqs[r].pc = "wait_open" /\ reqs[r].conn = i
                THEN [reqs[r] EXCEPT !.pc = "attempt"] ELSE reqs[r]]
  /\ UNCHANGED <<variant, registered, crashed, raw, formatted, emitted, listening, dirExists, credsDisk, zipf, hs, dl,
                 stopped, everComplete>>

\* connection.update {connection: 'close', lastDisconnect} on socket i.
ConnClose(i, reason) ==
  /\ ~crashed
  /\ Live(i)
  /\ Len(conns) + Len(OnClose(i, reason)) <= MaxConns
  /\ conns' = [conns EXCEPT ![i].st = "closed", ![i].reason = reason]
                \o OnClose(i, reason)
  /\ dirExists' = dirExists \cup {OnClose(i, reason)[k].dir :
                                    k \in DOMAIN OnClose(i, reason)}
  /\ stopped' = IF reason = loggedOut THEN stopped \cup {conns[i].sid} ELSE stopped
  /\ UNCHANGED <<variant, registered, crashed, raw, formatted, emitted, listening, credsDisk, zipf, hs, reqs, dl, everComplete>>

\* ---- creds.update handler and zipSession ---------------------------------
\* The handler is an async function the emitter does not await: each event
\* starts one invocation, which then advances through
\*   "persist" (await saveCreds()) -> "open" (fs.createWriteStream)
\*   -> "read" (archive.directory + finalize) -> "close" (output 'close')
\*   -> "done",  or ends "failed" when an awaited promise rejects.
\* The handler has no try/catch and the process registers no
\* 'unhandledRejection' listener: a rejected handler promise terminates the
\* process (the default since Node 15) or only warns (older Node).  A
\* terminated process takes no further step: every action requires ~crashed.
UnhandledRejection == {TRUE, FALSE}

HandlerStart_NoPersist == "open"

HandlerStart == "persist"

NewHandler(i, ver) ==
  [conn |-> i, stage |-> HandlerStart, ver |-> ver, dir |-> conns[i].dir,
   src |-> conns[i].zsrc, zip |-> conns[i].zip, persisted |-> FALSE,
   atUpdate |-> NoContent, snap |-> NoContent]

\* The library replaces the in-memory credentials and emits creds.update.
CredsUpdate(i) ==
  /\ ~crashed
  /\ Live(i)
  /\ emitted < MaxUpdates
  /\ emitted' = emitted + 1
  /\ conns' = [conns EXCEPT ![i].mem = emitted + 1]
  /\ hs' = IF conns[i].cwatch THEN Append(hs, NewHandler(i, emitted + 1)) ELSE hs
  /\ UNCHANGED <<variant, registered, crashed, raw, formatted, listening, dirExists, credsDisk, zipf, reqs, dl,
                 stopped, everComplete>>

\* saveCreds() resolves: the credentials serialised by this call are on disk.
SaveCredsDone(h) ==
  /\ ~crashed
  /\ hs[h].stage = "persist"
  /\ credsDisk' = [credsDisk EXCEPT ![hs[h].dir] = hs[h].ver]
  /\ hs' = [hs EXCEPT ![h].stage = "open", ![h].persisted = TRUE,
                      ![h].atUpdate =
                         [creds |-> [x \in DirsUnder(hs[h].src) |-> credsDisk'[x]],
                          zips  |-> [p \in ZipsUnder(hs[h].src) |-> zipf[p].st]]]
  /\ UNCHANGED <<variant, registered, crashed, raw, formatted, emitted, listening, conns, dirExists, zipf, reqs, dl, stopped,
                 everComplete>>

\* saveCreds() rejects: the handler's promise rejects, zipSession is not called.
\* Nothing catches the rejection (UnhandledRejection).
SaveCredsFail(h) ==
  /\ ~crashed
  /\ hs[h].stage = "persist"
  /\ hs' = [hs EXCEPT ![h].stage = "failed"]
  /\ crashed' \in UnhandledRejection
  /\ UNCHANGED <<variant, registered, raw, formatted, emitted, listening, conns, dirExists, credsDisk, zipf, reqs,
                 dl, stopped, everComplete>>

\* fs.createWriteStream(sessionZipPath): the file at the final path is created
\* or truncated.  A second stream on a path that is still being written races
\* with the first.
ZipOpen(h) ==
  /\ ~crashed
  /\ hs[h].stage = "open"
  /\ zipf' = [zipf EXCEPT ![hs[h].zip] =
                [st |-> "partial", writers |-> @.writers + 1,
                 raced |-> @.writers > 0, content |-> NoContent]]
  /\ hs' = [hs EXCEPT ![h].stage = "read"]
  /\ UNCHANGED <<variant, registered, crashed, raw, formatted, emitted, listening, conns, dirExists, credsDisk, reqs, dl,
                 stopped, everComplete>>

\* archive.directory(sessionPath, false); archive.finalize(): the source tree
\* is read, the output file included when it lies inside the source.
ZipRead(h) ==
  /\ ~crashed
  /\ hs[h].stage = "read"
  /\ hs' = [hs EXCEPT ![h].stage = "close", ![h].snap = DirContent(hs[h].src)]
  /\ UNCHANGED <<variant, registered, crashed, raw, formatted, emitted, listening, conns, dirExists, credsDisk, zipf, reqs,
                 dl, stopped, everComplete>>

\* archive 'error': zipSession rejects; the output file stays as it is.
ZipFail(h) ==
  /\ ~crashed
  /\ hs[h].stage = "read"
  /\ hs' = [hs EXCEPT ![h].stage = "failed"]
  /\ zipf' = [zipf EXCEPT ![hs[h].zip].writers = @ - 1]
  /\ crashed' \in UnhandledRejection
  /\ UNCHANGED <<variant, registered, raw, formatted, emitted, listening, conns, dirExists, credsDisk, reqs, dl,
                 stopped, everComplete>>

\* output 'close': the archive is complete, unless another stream is still
\* writing the same path; the bytes of two racing streams may be mixed.
ZipClose(h) ==
  /\ ~crashed
  /\ hs[h].stage = "close"
  /\ \E outcome \in (IF zipf[hs[h].zip].raced THEN {"complete", "corrupt"}
                     ELSE {"complete"}) :
       LET f == zipf[hs[h].zip]
           st == IF f.writers > 1 THEN "partial" ELSE outcome
       IN /\ zipf' = [zipf EXCEPT ![hs[h].zip] =
                        [st |-> st, writers |-> f.writers - 1, raced |-> f.raced,
                         content |-> IF st = "partial" THEN NoContent
                                     ELSE hs[h].snap]]
          /\ everComplete' = IF st = "complete"
                             THEN everComplete \cup {hs[h].zip} ELSE everComplete
  /\ hs' = [hs EXCEPT ![h].stage = "done", ![h].snap = NoContent]
  /\ UNCHANGED <<variant, registered, crashed, raw, formatted, emitted, listening, conns, dirExists, credsDisk, reqs, dl, stopped>>

\* ---- download route ------------------------------------------------------
\* server.js serves the fixed route /session/session.zip only.
DownloadNames == IF variant = "server" THEN {0} ELSE Names

\* The handler invocations that write archive `name', and the last of them.
HandlersOf(name) == {h \in DOMAIN hs : hs[h].zip = getSessionZipPath(name)}
LastHandler(name) == CHOOSE h \in HandlersOf(name) : \A k \in HandlersOf(name) : k <= h

\* GET /session/<name>.zip: 404 when no file is at the archive path, else the
\* file as it is now.  `handled' tells whether at this moment the last
\* credential update of that archive has been handled completely and no
\* handler of it is still running, `expect' the directory as that update left
\* it, `everComplete' whether a pack of that archive has ever completed.
Download(name) ==
  /\ ~crashed
  /\ listening
  /\ name \in DownloadNames
  /\ LET f == zipf[getSessionZipPath(name)]
         handled == /\ HandlersOf(name) # {}
                    /\ \A h \in HandlersOf(name) : hs[h].stage \in {"done", "failed"}
                    /\ hs[LastHandler(name)].stage = "done"
     IN dl' = [path |-> name,
               status |-> IF f.st = "absent" THEN 404 ELSE 200,
               st |-> f.st, content |-> f.content,
               everComplete |-> getSessionZipPath(name) \in everComplete,
               handled |-> handled,
               expect |-> IF handled THEN hs[LastHandler(name)].atUpdate
                          ELSE NoContent]
  /\ UNCHANGED <<variant, registered, crashed, raw, formatted, emitted, listening, conns, dirExists, credsDisk, zipf, hs, reqs,
                 stopped, everComplete>>

\* ---- /pair ---------------------------------------------------------------
\* `rid' is the random suffix the request drew (0: this version draws none),
\* `link' the archive that session_download of a 200 response names.
NoLink == -1
NewReq(phone, rid, sid, conn, pc, status) ==
  [phone |-> phone, rid |-> rid, sid |-> sid, conn |-> conn, pc |-> pc,
   attempt |-> 0,
   delays |-> 0, calls |-> 0, code |-> "none", status |-> status,
   link |-> NoLink]

\* GET /pair without q, had the handler allocated the session before it
\* tested q.
PairMissingQ_AllocatesFirst ==
  /\ ~crashed
  /\ listening
  /\ Len(reqs) < MaxReqs
  /\ reqs' = Append(reqs, NewReq(0, 0, 0, 0, "done", 400))
  /\ dirExists' = dirExists \cup {SessionName(1, 1)}
  /\ UNCHANGED <<variant, registered, crashed, raw, formatted, emitted, listening, conns,
                 credsDisk, zipf, hs, dl, stopped, everComplete>>

\* GET /pair without q.
PairMissingQ ==
  /\ ~crashed
  /\ listening
  /\ Len(reqs) < MaxReqs
  /\ reqs' = Append(reqs, NewReq(0, 0, 0, 0, "done", 400))
  /\ UNCHANGED <<variant, registered, crashed, raw, formatted, emitted, listening, conns, dirExists, credsDisk, zipf, hs, dl,
                 stopped, everComplete>>

\* Where the handler stands once its socket is made, had server.js not
\* awaited the open event.
FirstPc_NoWait == "attempt"

\* Where the handler stands once its socket is made: server.js awaits the
\* open event of the socket, the other versions enter the retry loop (or make
\* their one request) at once.
FirstPc == IF variant = "server" THEN "wait_open" ELSE "attempt"

\* GET /pair?q=phone up to the first pairing-code request: the session name
\* is chosen, its directory created and a socket opened on it.
PairBegin(phone, randomId) ==
  /\ ~crashed
  /\ listening
  /\ Len(reqs) < MaxReqs
  /\ Len(conns) < MaxConns
  /\ LET sock == PairSock(phone, randomId)
     IN /\ conns' = Append(conns, sock)
        /\ dirExists' = dirExists \cup {sock.dir}
        /\ reqs' = Append(reqs, NewReq(phone,
                                IF variant = "server" THEN 0 ELSE randomId,
                                sock.sid, Len(conns) + 1,
                                FirstPc, 0))
  /\ UNCHANGED <<variant, registered, crashed, raw, formatted, emitted, listening, credsDisk, zipf, hs, dl, stopped, everComplete>>

\* GET /pair?q=phone when the session directory cannot be created: mkdirSync,
\* ensureDirSync or useMultiFileAuthState throws inside the try block, no
\* socket is made and the catch answers 500.
PairDirFail(phone, randomId) ==
  /\ ~crashed
  /\ listening
  /\ Len(reqs) < MaxReqs
  /\ reqs' = Append(reqs, NewReq(phone,
                                 IF variant = "server" THEN 0 ELSE randomId,
                                 PairSock(phone, randomId).sid, 0, "done", 500))
  /\ UNCHANGED <<variant, registered, crashed, raw, formatted, emitted, listening, conns,
                 dirExists, credsDisk, zipf, hs, dl, stopped, everComplete>>

\* await sock.requestPairingCode(phoneNumber) settles with `out'.
PairAttempt(r, out) ==
  /\ ~crashed
  /\ reqs[r].pc = "attempt"
  /\ out = "code" => Live(reqs[r].conn)
  /\ reqs' = [reqs EXCEPT ![r] =
       IF variant = "single"
       THEN [@ EXCEPT !.calls = @ + 1, !.pc = "done",
                      !.code = IF out = "throw" THEN "none" ELSE out,
                      !.status = IF out = "throw" THEN 500 ELSE 200,
                      !.link = IF out = "throw" THEN NoLink
                               ELSE getSessionZipPath(reqs[r].sid)]
       ELSE [@ EXCEPT !.calls = @ + 1,
                      !.code = IF out = "code" THEN "code" ELSE "none",
                      !.pc = IF out = "code" THEN "respond" ELSE "delay"]]
  /\ UNCHANGED <<variant, registered, crashed, raw, formatted, emitted, listening, conns, dirExists, credsDisk, zipf, hs, dl,
                 stopped, everComplete>>

\* await new Promise((r) => setTimeout(r, 2000)); attempt++.
PairDelay(r) ==
  /\ ~crashed
  /\ reqs[r].pc = "delay"
  /\ reqs' = [reqs EXCEPT ![r].attempt = @ + 1, ![r].delays = @ + 1,
                          ![r].pc = IF reqs[r].attempt + 1 < maxRetries
                                    THEN "attempt" ELSE "respond"]
  /\ UNCHANGED <<variant, registered, crashed, raw, formatted, emitted, listening, conns, dirExists, credsDisk, zipf, hs, dl,
                 stopped, everComplete>>

\* After the loop, had the catch block ended the socket of the request before
\* answering 500.
PairRespond_EndsSocket(r) ==
  /\ ~crashed
  /\ reqs[r].pc = "respond"
  /\ reqs' = [reqs EXCEPT ![r].pc = "done",
                          ![r].status = IF reqs[r].code = "code" THEN 200 ELSE 500,
                          ![r].link = IF reqs[r].code = "code"
                                      THEN getSessionZipPath(reqs[r].sid)
                                      ELSE NoLink]
  /\ conns' = IF reqs[r].code = "code" THEN conns
              ELSE [conns EXCEPT ![reqs[r].conn].st = "closed",
                                 ![reqs[r].conn].watch = FALSE]
  /\ UNCHANGED <<variant, registered, crashed, raw, formatted, emitted, listening,
                 dirExists, credsDisk, zipf, hs, dl, stopped, everComplete>>

\* After the loop: 200 with the code, or the thrown error answered as 500.
PairRespond(r) ==
  /\ ~crashed
  /\ reqs[r].pc = "respond"
  /\ reqs' = [reqs EXCEPT ![r].pc = "done",
                          ![r].status = IF reqs[r].code = "code" THEN 200 ELSE 500,
                          ![r].link = IF reqs[r].code = "code"
                                      THEN getSessionZipPath(reqs[r].sid)
                                      ELSE NoLink]
  /\ UNCHANGED <<variant, registered, crashed, raw, formatted, emitted, listening, conns, dirExists, credsDisk, zipf, hs, dl,
                 stopped, everComplete>>

\* ---- formatting of the pairing code ---------------------------------------
\* A code is a sequence of characters; <<>> stands for no code ('', null,
\* undefined).  requestPairingCode returns letters and digits.
GroupSize == 4
LineTerminators == {"\n", "\r"}
IsDot(c) == c \notin LineTerminators
RawCodes == UNION {[1 .. n -> CodeChars] : n \in 0 .. MaxCodeLen}

\* code.match(/.{1,4}/g): the successive longest runs of 1 to 4 characters
\* that `.' matches; <<>> when there is none (match returns null).
RECURSIVE Match(_)
Match(s) ==
  IF s = <<>> THEN <<>>
  ELSE IF ~IsDot(Head(s)) THEN Match(Tail(s))
  ELSE LET n == CHOOSE k \in 1 .. GroupSize :
                  /\ k <= Len(s)
                  /\ \A i \in 1 .. k : IsDot(s[i])
                  /\ (k = GroupSize \/ k = Len(s) \/ ~IsDot(s[k + 1]))
       IN <<SubSeq(s, 1, n)>> \o Match(SubSeq(s, n + 1, Len(s)))

\* groups.join('-') without the delimiter.
RECURSIVE Join_NoDelimiter(_)
Join_NoDelimiter(gs) ==
  IF Len(gs) = 1 THEN gs[1] ELSE gs[1] \o Join_NoDelimiter(Tail(gs))

\* groups.join('-')
RECURSIVE Join(_)
Join(gs) ==
  IF Len(gs) = 1 THEN gs[1] ELSE gs[1] \o <<"-">> \o Join(Tail(gs))

\* code.match(/.{1,4}/g)?.join('-') || code
Format(code) ==
  LET groups == Match(code)
  IN IF groups = <<>> THEN code ELSE Join(groups)

\* The formatting line runs on `raw'.  After the retry loop it is reached
\* only with a code (`if (!code) throw' precedes it); the single-attempt
\* version formats whatever requestPairingCode resolved with.
FormatCode ==
  /\ ~crashed
  /\ formatted = <<>>
  /\ variant # "single" => raw # <<>>
  /\ formatted' = <<Format(raw)>>
  /\ UNCHANGED <<variant, registered, crashed, raw, emitted, listening, conns, dirExists,
                 credsDisk, zipf, hs, reqs, dl, stopped, everComplete>>

\* ---- pairing-code block of the default session ---------------------------
\* The phone number is there (process.env.PHONE or the answer read from
\* stdin) and sock.requestPairingCode is called.
DefaultRequest(i) ==
  /\ ~crashed
  /\ conns[i].pairing = "todo"
  /\ conns' = [conns EXCEPT ![i].pairing = "requested"]
  /\ UNCHANGED <<variant, registered, crashed, raw, formatted, emitted,
                 listening, dirExists, credsDisk, zipf, hs, reqs, dl, stopped,
                 everComplete>>

\* The request settles: a code is formatted and logged; a rejection, or the
\* TypeError of code.match on a missing code, is caught and logged.
DefaultSettle(i, out) ==
  /\ ~crashed
  /\ conns[i].pairing = "requested"
  /\ out = "code" => Live(i)
  /\ conns' = [conns EXCEPT ![i].pairing = IF out = "code" THEN "logged"
                                           ELSE "caught"]
  /\ UNCHANGED <<variant, registered, crashed, raw, formatted, emitted,
                 listening, dirExists, credsDisk, zipf, hs, reqs, dl, stopped,
                 everComplete>>

\* The logged code is entered on the phone: the device is linked and the
\* credentials stored in 'session' are registered from now on.
Linked(i) ==
  /\ ~crashed
  /\ conns[i].pairing = "logged"
  /\ Live(i)
  /\ ~registered
  /\ registered' = TRUE
  /\ UNCHANGED <<variant, crashed, raw, formatted, emitted, listening, conns,
                 dirExists, credsDisk, zipf, hs, reqs, dl, stopped,
                 everComplete>>

\* ---- specifications ----------------------------------------------------
\* Connection lifecycle: process start, /pair up to the socket, open, close.
NextLife ==
  \/ Listen
  \/ \E i \in DOMAIN conns : ConnOpen(i)
  \/ \E i \in DOMAIN conns, reason \in CloseReasons : ConnClose(i, reason)
  \/ PairMissingQ
  \/ \E phone \in Phones, randomId \in RandomIds : PairBegin(phone, randomId)
  \/ \E phone \in Phones, randomId \in RandomIds : PairDirFail(phone, randomId)

\* Credential updates and archiving.
NextHandlers ==
  \/ \E i \in DOMAIN conns : CredsUpdate(i)
  \/ \E h \in DOMAIN hs : SaveCredsDone(h)
  \/ \E h \in DOMAIN hs : SaveCredsFail(h)
  \/ \E h \in DOMAIN hs : ZipOpen(h)
  \/ \E h \in DOMAIN hs : ZipRead(h)
  \/ \E h \in DOMAIN hs : ZipFail(h)
  \/ \E h \in DOMAIN hs : ZipClose(h)

\* ... and downloads.
NextArchive ==
  \/ NextHandlers
  \/ \E name \in Names : Download(name)

\* The pairing-code loop of /pair.
NextPair ==
  \/ \E r \in DOMAIN reqs, out \in {"code", "empty", "throw"} : PairAttempt(r, out)
  \/ \E r \in DOMAIN reqs : PairDelay(r)
  \/ \E r \in DOMAIN reqs : PairRespond(r)

\* The formatting line.
NextFormat == FormatCode

\* The pairing-code block of the default session.
NextDefault ==
  \/ \E i \in DOMAIN conns : DefaultRequest(i)
  \/ \E i \in DOMAIN conns, out \in {"code", "empty", "throw"} : DefaultSettle(i, out)
  \/ \E i \in DOMAIN conns : Linked(i)

Next == NextLife \/ NextArchive \/ NextPair \/ NextFormat \/ NextDefault

Spec == Init /\ [][Next]_vars

\* SpecLife: the server while no credential update arrives and no pairing-code
\* request settles.  SpecArchive: the server while no connection changes state
\* and no pairing-code request settles.  SpecHandlers: SpecArchive without
\* download requests.
SpecLife == Init /\ [][NextLife]_vars
SpecArchive ==
  Init /\ [][\/ Listen
             \/ \E phone \in Phones, randomId \in RandomIds : PairBegin(phone, randomId)
             \/ NextArchive]_vars
SpecHandlers ==
  Init /\ [][\/ Listen
             \/ \E phone \in Phones, randomId \in RandomIds : PairBegin(phone, randomId)
             \/ NextHandlers]_vars
\* SpecPair: the server while no credential update arrives.
SpecPair == Init /\ [][NextLife \/ NextPair]_vars

\* SpecServerPair: SpecPair of server.js alone, the version whose /pair awaits
\* the open event.
InitServer == Init /\ variant = "server"
SpecServerPair == InitServer /\ [][NextLife \/ NextPair]_vars

\* SpecDefault: the connections of the server, their opens and closes and
\* the pairing-code block of the default session, starting with stored
\* credentials that are registered or not.
InitDefault ==
  /\ NotStarted
  /\ raw = <<>>
  /\ formatted = <<>>
  /\ registered \in BOOLEAN
SpecDefault ==
  InitDefault /\ [][\/ Listen
                    \/ \E i \in DOMAIN conns : ConnOpen(i)
                    \/ \E i \in DOMAIN conns, reason \in CloseReasons : ConnClose(i, reason)
                    \/ \E phone \in Phones, randomId \in RandomIds : PairBegin(phone, randomId)
                    \/ NextDefault]_vars

\* SpecFormat: the formatting line on every raw code of up to MaxCodeLen
\* characters.
InitFormat ==
  /\ NotStarted
  /\ raw \in RawCodes
  /\ formatted = <<>>
  /\ registered = FALSE
SpecFormat == InitFormat /\ [][NextFormat]_vars

\* ==== properties ==========================================================

NewSocks == {j \in DOMAIN conns' : j > Len(conns)}
ClosesNow(i) == Live(i) /\ conns'[i].st = "closed"

\* C1: every close event whose reason is not loggedOut starts exactly one new
\* connection, never zero and never more than one.
C1_ReconnectExactlyOnce ==
  [][\A i \in DOMAIN conns :
       (ClosesNow(i) /\ conns'[i].reason # loggedOut)
         => Cardinality(NewSocks) = 1]_vars

\* C2: once a session's connection has closed with loggedOut, no further
\* connection is started for that session.
C2_StoppedStaysStopped ==
  [][\A j \in NewSocks : conns'[j].sid \notin stopped]_vars

\* C3: the connection a non-logout close starts is bound to the same session
\* identifier, credential directory and archive path as the one that closed.
C3_ReconnectSameSession ==
  [][\A j \in NewSocks :
       conns'[j].from # 0 =>
         /\ conns'[j].sid = conns[conns'[j].from].sid
         /\ conns'[j].dir = conns[conns'[j].from].dir
         /\ conns'[j].zip = conns[conns'[j].from].zip]_vars

\* C4: two live connections are never bound to the same session identifier.
C4_OneLiveConnectionPerSession ==
  \A i, j \in DOMAIN conns :
    (i # j /\ Live(i) /\ Live(j)) => conns[i].sid # conns[j].sid

InFlight(h) == hs[h].stage \notin {"done", "failed"}

\* C5: every creds.update event starts a handler invocation (none is skipped);
\* an invocation calls the archiver only after its persist has completed, and
\* on the directory and archive path of its own session.
C5_PersistThenArchive ==
  /\ Len(hs) = emitted
  /\ \A h \in DOMAIN hs :
       /\ hs[h].stage \in {"open", "read", "close", "done"} => hs[h].persisted
       /\ hs[h].persisted => credsDisk[conns[hs[h].conn].dir] # 0
       /\ hs[h].src = conns[hs[h].conn].dir
       /\ hs[h].zip = getSessionZipPath(conns[hs[h].conn].sid)

\* C5 witness: a credential update of a per-request session has been persisted
\* and then archived to completion.
C5_Witness ==
  \E h \in DOMAIN hs :
    /\ hs[h].stage = "done" /\ hs[h].persisted
    /\ conns[hs[h].conn].kind = "pair"
    /\ zipf[hs[h].zip].st = "complete"

\* C6: the handling of one credential update of a session finishes before the
\* next one of that session begins, and no archive path has two writes in
\* progress.
C6_NoInterleaving ==
  /\ \A h, k \in DOMAIN hs :
       (h # k /\ conns[hs[h].conn].sid = conns[hs[k].conn].sid)
         => ~(InFlight(h) /\ InFlight(k))
  /\ \A p \in Names : zipf[p].writers <= 1

\* C7: a download never observes a partially written or mixed-up archive: it
\* answers 404 or serves a complete archive.
C7_AtomicReplace ==
  dl.status = 200 => dl.st = "complete"

\* C8: a download made after the last credential update of the session has
\* been handled serves an archive equal to the directory as that update left
\* it.
C8_ArchiveFresh ==
  (dl.status # 0 /\ dl.handled)
    => (dl.status = 200 /\ dl.st = "complete" /\ dl.content = dl.expect)

\* C9: a download for a session none of whose packs has completed answers 404.
C9_NotArchivedIs404 ==
  (dl.status # 0 /\ ~dl.everComplete) => dl.status = 404

\* Two requests drew the same random suffix for the same phone number (the
\* case C12 is about).
SameDraw(r, q) ==
  reqs[r].rid # 0 /\ reqs[r].phone = reqs[q].phone /\ reqs[r].rid = reqs[q].rid

\* C10: two /pair requests (a collision of the random suffix aside) never
\* share the session identifier, the credential directory, the archive path or
\* the connection, and every handler invocation writes the directory and
\* archive of the session whose event started it.
C10_RequestsIsolated ==
  /\ \A r, q \in DOMAIN reqs :
       (r # q /\ reqs[r].conn # 0 /\ reqs[q].conn # 0 /\ ~SameDraw(r, q))
         => /\ reqs[r].sid # reqs[q].sid
            /\ reqs[r].conn # reqs[q].conn
            /\ conns[reqs[r].conn].dir # conns[reqs[q].conn].dir
            /\ conns[reqs[r].conn].zip # conns[reqs[q].conn].zip
  /\ \A h \in DOMAIN hs :
       /\ hs[h].dir = conns[hs[h].conn].dir
       /\ hs[h].zip = conns[hs[h].conn].zip

\* C11: a complete archive of a session holds only the credential files of
\* that session's own credential directory; credential files and archives of
\* any other session never appear in it, the default session's included.
C11_ArchiveOnlyOwnSession ==
  \A p \in Names :
    zipf[getSessionZipPath(p)].st = "complete" =>
      /\ DOMAIN zipf[getSessionZipPath(p)].content.creds \subseteq {getUserSessionDir(p)}
      /\ DOMAIN zipf[getSessionZipPath(p)].content.zips \subseteq {getSessionZipPath(p)}

\* C12: the /pair requests that draw a random suffix get pairwise distinct
\* session identifiers, also when they name the same phone number.
C12_DistinctSessionIds ==
  \A r, q \in DOMAIN reqs :
    (r # q /\ reqs[r].rid # 0 /\ reqs[q].rid # 0) => reqs[r].sid # reqs[q].sid

\* C13: a /pair request never makes more than maxRetries pairing-code
\* requests; it is answered 500 for want of a code only after exactly
\* maxRetries failed requests with a delay between each two of them; and once
\* a request has returned a code no further request is made.
C13_ThreeAttemptsThenExhausted ==
  \A r \in DOMAIN reqs :
    reqs[r].conn # 0 =>
      /\ reqs[r].calls <= maxRetries
      /\ (reqs[r].pc = "done" /\ reqs[r].status = 500) =>
           (reqs[r].calls = maxRetries /\ reqs[r].delays >= maxRetries - 1)
      /\ reqs[r].code = "code" => reqs[r].pc \in {"respond", "done"}

\* C14: an answered /pair request with a phone number has status 200 or 500;
\* it has 200 only when requestPairingCode returned a non-empty code, and then
\* session_download names the archive of exactly the session_id in the body;
\* every request that obtained no code has 500.
C14_OkOnlyWithCode ==
  \A r \in DOMAIN reqs :
    (reqs[r].phone # 0 /\ reqs[r].pc = "done") =>
      /\ reqs[r].status \in {200, 500}
      /\ reqs[r].status = 200 <=> reqs[r].code = "code"
      /\ reqs[r].status = 200 => reqs[r].link = getSessionZipPath(reqs[r].sid)

\* C15: a GET /pair without q is answered 400 and changes nothing: no session
\* is allocated, no directory created, no connection opened, no credential
\* file or archive written, no handler started.
C15_MissingQLeavesStateUnchanged ==
  [][(Len(reqs') = Len(reqs) + 1 /\ reqs'[Len(reqs')].phone = 0) =>
       /\ reqs'[Len(reqs')].status = 400
       /\ reqs'[Len(reqs')].pc = "done"
       /\ reqs'[Len(reqs')].conn = 0
       /\ SubSeq(reqs', 1, Len(reqs)) = reqs
       /\ UNCHANGED <<conns, dirExists, credsDisk, zipf, hs, stopped,
                      everComplete, listening, crashed>>]_vars

\* A request without q has been answered while a session and a connection exist.
C15_Witness ==
  /\ conns # <<>>
  /\ \E r \in DOMAIN reqs : reqs[r].phone = 0 /\ reqs[r].status = 400

\* C16: when persisting or archiving fails during a credential update, the
\* failure is contained: the process is still running afterwards, so that
\* later events are handled and requests served.
C16_FailureContained ==
  \A h \in DOMAIN hs : hs[h].stage = "failed" => ~crashed

Delimiter == "-"
StripDelimiters(s) == SelectSeq(s, LAMBDA c : c # Delimiter)

\* C17: the formatted pairing code is the raw code cut into consecutive groups
\* of GroupSize characters joined by '-', the last group having 1 to GroupSize
\* characters: the delimiters stand at exactly every fifth position, never at
\* the end, and removing them gives back the raw code.
C17_FormatGroupsOfFour ==
  formatted # <<>> =>
    LET f == formatted[1]
    IN /\ StripDelimiters(f) = raw
       /\ \A i \in 1 .. Len(f) : (f[i] = Delimiter) <=> (i % (GroupSize + 1) = 0)
       /\ f # <<>> => f[Len(f)] # Delimiter

\* "ABCDEFG" -> "ABCD-EFG" and "ABCDEFGH" -> "ABCD-EFGH": a raw code of 7 or 8
\* characters has been formatted into a group of 4 and a group of 3 or 4.
C17_Witness ==
  /\ formatted # <<>>
  /\ Len(raw) \in {GroupSize + 3, 2 * GroupSize}
  /\ Len(formatted[1]) = Len(raw) + 1
  /\ formatted[1][GroupSize + 1] = Delimiter

\* The directories and archive files other than archive p, now and next.
FilesBut(p) ==
  <<dirExists, credsDisk, [x \in Names \ {p} |-> zipf[x]]>>
FilesButNext(p) ==
  <<dirExists', credsDisk', [x \in Names \ {p} |-> zipf'[x]]>>
\* What a read of directory d finds after the step.
DirContentNext(d) ==
  [creds |-> [x \in (IF d = sessionDir THEN dirExists' ELSE {d} \cap dirExists')
                |-> credsDisk'[x]],
   zips  |-> [p \in (IF d = sessionDir THEN {x \in Names : zipf'[x].st # "absent"}
                     ELSE {}) |-> zipf'[p].st]]

\* C18: a step of a pack (opening, reading, closing or failing) writes no file
\* but the pack's destination archive, and leaves the contents of the source
\* directory it reads as they were.
C18_PackWritesOnlyDestination ==
  [][\A h \in DOMAIN hs :
       (hs[h].stage \in {"open", "read", "close"} /\ hs'[h].stage # hs[h].stage) =>
         /\ FilesButNext(hs[h].zip) = FilesBut(hs[h].zip)
         /\ DirContentNext(hs[h].src) = DirContent(hs[h].src)]_vars

\* The live connections of the session of request r started after the
\* connection the request holds.
NewerLive(r) ==
  {j \in DOMAIN conns : /\ j > reqs[r].conn
                        /\ conns[j].sid = reqs[r].sid
                        /\ Live(j)}

\* C19: every pairing-code request of a /pair request is issued on the
\* session's currently active connection: never on a closed connection while
\* a connection started in its place is live.
C19_AttemptsUseActiveConnection ==
  [][\A r \in DOMAIN reqs :
       (reqs[r].conn # 0 /\ reqs'[r].calls = reqs[r].calls + 1) =>
         (Live(reqs[r].conn) \/ NewerLive(r) = {})]_vars

\* C20: every connection that has been started has both of its watchers
\* registered, the credential-update watcher and the connection-state watcher,
\* before the first pairing-code request is issued on it or an event of it
\* arrives.
C20_BothWatchersRegistered ==
  \A i \in DOMAIN conns : conns[i].cwatch /\ conns[i].watch

\* Request r has been answered 500 because all maxRetries pairing-code
\* requests failed ('Max retries reached').
Exhausted(r) ==
  /\ reqs[r].conn # 0
  /\ reqs[r].pc = "done"
  /\ reqs[r].status = 500
  /\ reqs[r].calls = maxRetries

C22_NoRequestWaitsForEver ==
  \A r \in DOMAIN reqs :
    (reqs[r].phone # 0 /\ reqs[r].pc = "wait_open") =>
      conns[reqs[r].conn].st = "connecting"

\* C23: in server.js, the version of /pair that waits for open, every
\* pairing-code request of the handler is issued on a connection that has
\* emitted its open event before.
C23_OpenBeforeRequest ==
  [][\A r \in DOMAIN reqs :
       (variant = "server" /\ reqs[r].conn # 0
          /\ reqs'[r].calls = reqs[r].calls + 1)
         => conns[reqs[r].conn].opened]_vars

\* A /pair request of server.js has issued a pairing-code request.
C23_Witness ==
  /\ variant = "server"
  /\ \E r \in DOMAIN reqs : reqs[r].calls > 0 /\ conns[reqs[r].conn].opened

\* C24: every connection of the default session, started first or by a
\* reconnect, has requested (or is about to request) a pairing code exactly
\* when the credentials it loaded were not registered; and a failure of that
\* request changes nothing of the connection but the block's own position: the
\* connection is not closed and keeps both watchers, and no other connection
\* changes.
C24_DefaultPairsIffUnregistered ==
  [][/\ \A i \in DOMAIN conns' :
          conns'[i].kind = "default" =>
            /\ conns'[i].pairing # "none" <=> ~conns'[i].reg
            /\ i \notin DOMAIN conns => conns'[i].reg = registered
     /\ \A i \in DOMAIN conns :
          (conns[i].pairing = "requested" /\ conns'[i].pairing = "caught") =>
            /\ conns' = [conns EXCEPT ![i].pairing = "caught"]
            /\ Live(i) => (conns'[i].st = conns[i].st)
            /\ conns'[i].watch /\ conns'[i].cwatch]_vars

\* A start of the default session requested a code and caught the failure of
\* the request, and a later reconnect found registered credentials and
\* requested none.
C24_Witness ==
  /\ \E i \in DOMAIN conns :
       conns[i].kind = "default" /\ ~conns[i].reg /\ conns[i].pairing = "caught"
  /\ \E i \in DOMAIN conns :
       conns[i].kind = "default" /\ conns[i].from # 0 /\ conns[i].reg
         /\ conns[i].pairing = "none"

====
